---- MODULE Spec2Model ----
(***************************************************************************)
(* A model of chemlib/chemistry.py: parse_formula, Compound and Reaction.   *)
(*                                                                         *)
(* Representation                                                          *)
(*   - a str is a sequence of one-character strings;                       *)
(*   - a dict is a sequence of <<key, value>> pairs with distinct keys, in *)
(*     insertion order; dict equality (==) ignores the order;              *)
(*   - a Python float / sympy Rational is an exact fraction <<n, d>> with  *)
(*     d > 0 and gcd(n, d) = 1 (rounding of floats is not modelled);       *)
(*   - a Compound is a record [id, formula, occurences], id standing for   *)
(*     the object's identity; its `elements` list is Elements(c);          *)
(*   - the Reaction instance is the record variable `self`.                *)
(***************************************************************************)
EXTENDS Integers, Sequences, FiniteSets, TLC

VARIABLES
    formula,    \* the str handed to parse_formula / Compound(...)
    compound,   \* the Compound under test
    self,       \* the Reaction instance
    pre,        \* the reactants and products of self when the last call began
    pc,         \* "ready" for a call, or "returned" from one
    op,         \* name of the last call
    args,       \* arguments of the last call
    ret,        \* value returned by the last call (None when it raised)
    err         \* exception raised by the last call, or "none"

vars == <<formula, compound, self, pre, pc, op, args, ret, err>>

\* None, where a list entry or a returned value is missing
None == <<>>
\* the variables of the objects that are not built
NoFormula == <<>>
NoCompound == [id |-> 0]
NoReaction == [reactants |-> <<>>, products |-> <<>>]
NoCall == [op |-> "none"]

\* ------------------------------------------------------------------ bounds
MaxTokens == 3      \* element tokens in a formula handed to parse_formula
MaxElems == 2       \* element tokens in a formula handed to Compound(...)
MaxSide == 2        \* compounds written on one side of a reaction
MaxAmount == 3      \* largest amount / concentration argument
MaxNumber == 4      \* largest compound_number argument
MaxCoefficient == 6 \* largest coefficient tried for a conserving assignment

\* ------------------------------------------------------------- characters
Upper == {"H", "O", "N", "C", "F", "M", "I", "S"}
Lower == {"g", "a", "e"}
Digit == {"0", "1", "2", "3", "4", "5", "6", "7", "8", "9"}

DigitVal(c) ==
    CASE c = "0" -> 0 [] c = "1" -> 1 [] c = "2" -> 2 [] c = "3" -> 3
      [] c = "4" -> 4 [] c = "5" -> 5 [] c = "6" -> 6 [] c = "7" -> 7
      [] c = "8" -> 8 [] c = "9" -> 9

DigitChar(n) ==
    CASE n = 0 -> "0" [] n = 1 -> "1" [] n = 2 -> "2" [] n = 3 -> "3"
      [] n = 4 -> "4" [] n = 5 -> "5" [] n = 6 -> "6" [] n = 7 -> "7"
      [] n = 8 -> "8" [] n = 9 -> "9"

\* int(s) for a non-empty str of decimal digits
RECURSIVE int(_)
int(s) ==
    IF Len(s) = 0 THEN 0
    ELSE 10 * int(SubSeq(s, 1, Len(s) - 1)) + DigitVal(s[Len(s)])

\* str(n) for n >= 0
RECURSIVE str(_)
str(n) ==
    IF n < 10 THEN <<DigitChar(n)>>
    ELSE Append(str(n \div 10), DigitChar(n % 10))

\* ------------------------------------------------------------------ dicts
Has(d, k) == \E i \in 1..Len(d) : d[i][1] = k
Get(d, k) == d[CHOOSE i \in 1..Len(d) : d[i][1] = k][2]
Keys(d) == [i \in 1..Len(d) |-> d[i][1]]
Put(d, k, v) ==
    IF Has(d, k)
    THEN [i \in 1..Len(d) |-> IF d[i][1] = k THEN <<k, v>> ELSE d[i]]
    ELSE Append(d, <<k, v>>)
DictEq(a, b) == {a[i] : i \in 1..Len(a)} = {b[i] : i \in 1..Len(b)}

\* d.update(e)
RECURSIVE Update(_, _)
Update(d, e) ==
    IF Len(e) = 0 THEN d ELSE Update(Put(d, e[1][1], e[1][2]), Tail(e))

\* list helpers
In(x, s) == \E i \in 1..Len(s) : s[i] = x
Count(x, s) == Cardinality({i \in 1..Len(s) : s[i] = x})
\* a list given by its entries, built once
List(f) == f \o <<>>
\* [x] * n
Repeat(x, n) == List([i \in 1..n |-> x])
\* the entries of s at the positions P, in order
Pick(s, P) ==
    List([k \in 1..Cardinality(P) |->
            s[CHOOSE i \in P : Cardinality({j \in P : j <= i}) = k]])
\* the first occurrence of each entry, in order
Dedup(s) == Pick(s, {i \in 1..Len(s) : \A j \in 1..(i - 1) : s[j] # s[i]})
\* sum(lists, [])
RECURSIVE Concat(_)
Concat(ss) ==
    IF Len(ss) = 0 THEN <<>>
    ELSE IF Len(ss) = 1 THEN ss[1] \o <<>>
    ELSE LET h == Len(ss) \div 2
         IN Concat(SubSeq(ss, 1, h)) \o Concat(SubSeq(ss, h + 1, Len(ss)))

\* ---------------------------------------------------------- parse_formula
\* end of the maximal run of digits that starts at position i (i - 1 if none)
RECURSIVE DigitsEnd(_, _)
DigitsEnd(s, i) ==
    IF i <= Len(s) /\ s[i] \in Digit THEN DigitsEnd(s, i + 1) ELSE i - 1

\* first position >= i holding character c, or 0
RECURSIVE Find(_, _, _)
Find(s, c, i) ==
    IF i > Len(s) THEN 0 ELSE IF s[i] = c THEN i ELSE Find(s, c, i + 1)

\* multiply(f, multiplier)
multiply(f, multiplier) == [i \in 1..Len(f) |-> <<f[i][1], f[i][2] * multiplier>>]

\* form_dict.update(parens), the merge of one group into the result
MergeGroup(form_dict, parens) == Update(form_dict, parens)

\* whether the REST loop skips a token with these captures
SkipToken(left, right) == left \/ right

RECURSIVE parse_formula(_), ParensPass(_, _, _), RestPass(_, _, _)

\* for match in re.finditer(r"\((.*?)\)(\d*)", formula), scanning from i
ParensPass(s, i, form_dict) ==
    LET open == Find(s, "(", i)
        close == IF open = 0 THEN 0 ELSE Find(s, ")", open + 1)
    IN IF open = 0 \/ close = 0 THEN form_dict
       ELSE LET last == DigitsEnd(s, close + 1)
                mul == SubSeq(s, close + 1, last)
                parens == multiply(parse_formula(SubSeq(s, open + 1, close - 1)),
                                   IF mul = <<>> THEN 1 ELSE int(mul))
            IN ParensPass(s, last + 1, MergeGroup(form_dict, parens))

\* for match in re.finditer(r"(\(?)([A-Z][a-z]?)(\d*)(\)?)", formula), from i
RestPass(s, i, form_dict) ==
    IF i > Len(s) THEN form_dict
    ELSE
      LET left == s[i] = "(" /\ i + 1 <= Len(s) /\ s[i + 1] \in Upper
          p == IF left THEN i + 1 ELSE i
      IN IF ~(s[p] \in Upper) THEN RestPass(s, i + 1, form_dict)
         ELSE
           LET q == IF p + 1 <= Len(s) /\ s[p + 1] \in Lower THEN p + 1 ELSE p
               elem == SubSeq(s, p, q)
               r == DigitsEnd(s, q + 1)
               mul == SubSeq(s, q + 1, r)
               right == r + 1 <= Len(s) /\ s[r + 1] = ")"
               e == IF right THEN r + 1 ELSE r
               n == IF mul = <<>> THEN 1 ELSE int(mul)
           IN IF SkipToken(left, right) THEN RestPass(s, e + 1, form_dict)
              ELSE RestPass(s, e + 1,
                     IF Has(form_dict, elem)
                     THEN Put(form_dict, elem, Get(form_dict, elem) + n)
                     ELSE Put(form_dict, elem, n))

parse_formula(s) == RestPass(s, 1, ParensPass(s, 1, <<>>))

\* --------------------------------------------------------------- Compound
\* str.translate(SUB) on one character
SUB(c) ==
    CASE c = "0" -> "_0" [] c = "1" -> "_1" [] c = "2" -> "_2" [] c = "3" -> "_3"
      [] c = "4" -> "_4" [] c = "5" -> "_5" [] c = "6" -> "_6" [] c = "7" -> "_7"
      [] c = "8" -> "_8" [] c = "9" -> "_9" [] OTHER -> c

\* Compound.__init__: occurences and the canonical formula rendered from them;
\* id is the identity of the object built (Compound defines no __eq__, so two
\* Compounds are equal only when they are the same object)
translate(t) == List([j \in 1..Len(t) |-> SUB(t[j])])

Compound_of(id, occ) ==
    [id |-> id,
     formula |-> Concat([i \in 1..Len(occ) |-> translate(occ[i][1] \o str(occ[i][2]))]),
     occurences |-> occ]

Compound(id, f) == Compound_of(id, parse_formula(f) \o <<>>)

\* Compound.elements, as the list of the elements' symbols
Elements(c) ==
    Concat([i \in 1..Len(c.occurences) |->
              Repeat(c.occurences[i][1], c.occurences[i][2])])

\* Element(symbol).Group and Element(symbol).AtomicMass: the periodic table
\* (resources/PTE_updated.csv), masses rounded to whole numbers
Group(sym) ==
    CASE sym = <<"H">> -> 1   [] sym = <<"N", "a">> -> 1 [] sym = <<"M", "g">> -> 2
      [] sym = <<"F", "e">> -> 8 [] sym = <<"C">> -> 14  [] sym = <<"N">> -> 15
      [] sym = <<"O">> -> 16  [] sym = <<"S">> -> 16     [] sym = <<"F">> -> 17
      [] sym = <<"I">> -> 17

AtomicMass(sym) ==
    CASE sym = <<"H">> -> 1   [] sym = <<"N", "a">> -> 23 [] sym = <<"M", "g">> -> 24
      [] sym = <<"F", "e">> -> 56 [] sym = <<"C">> -> 12  [] sym = <<"N">> -> 14
      [] sym = <<"O">> -> 16  [] sym = <<"S">> -> 32      [] sym = <<"F">> -> 19
      [] sym = <<"I">> -> 127

RECURSIVE SumSeq(_)
SumSeq(s) ==
    IF Len(s) = 0 THEN 0
    ELSE IF Len(s) = 1 THEN s[1]
    ELSE LET h == Len(s) \div 2
         IN SumSeq(SubSeq(s, 1, h)) + SumSeq(SubSeq(s, h + 1, Len(s)))

\* Compound.molar_mass
molar_mass(c) ==
    LET elements == Elements(c)
    IN SumSeq([i \in 1..Len(elements) |-> AtomicMass(elements[i])])

\* list.remove(x): drops the first occurrence
Remove(s, x) ==
    LET i == CHOOSE j \in 1..Len(s) : s[j] = x /\ \A k \in 1..(j - 1) : s[k] # x
    IN SubSeq(s, 1, i - 1) \o SubSeq(s, i + 1, Len(s))

Abs(n) == IF n < 0 THEN -n ELSE n

\* int(a / b): the float quotient truncated toward zero
TruncDiv(a, b) ==
    IF (a >= 0) = (b > 0) THEN Abs(a) \div Abs(b) ELSE -(Abs(a) \div Abs(b))

\* the fixed oxidation states
table == << <<<<"F">>, -1>>, <<<<"O">>, -2>> >>

\* current(): the charge carried by the oxidation numbers assigned so far
current(ox_nums, occurences) ==
    SumSeq([i \in 1..Len(ox_nums) |->
              ox_nums[i][2] * Get(occurences, ox_nums[i][1])])

\* one pass of `for sym in symbols`; st = [ox_nums, left, exc]
OxStep(st, sym) ==
    LET s1 == IF st.exc = "none" /\ Has(table, sym)
              THEN [st EXCEPT !.ox_nums = Put(@, sym, Get(table, sym)),
                              !.left = Remove(@, sym)]
              ELSE st
    IN IF s1.exc = "none" /\ Group(sym) < 3
       THEN IF In(sym, s1.left)
            THEN [s1 EXCEPT !.ox_nums = Put(@, sym, Group(sym)),
                            !.left = Remove(@, sym)]
            ELSE [s1 EXCEPT !.ox_nums = Put(@, sym, Group(sym)),
                            !.exc = "ValueError"]
       ELSE s1

RECURSIVE OxLoop(_, _)
OxLoop(st, symbols) ==
    IF Len(symbols) = 0 THEN st ELSE OxLoop(OxStep(st, Head(symbols)), Tail(symbols))

\* Compound.oxidation_numbers: [val |-> the dict returned, exc |-> the exception]
oxidation_numbers(c) ==
    IF Len(c.occurences) = 1 THEN [val |-> <<>>, exc |-> "none"]
    ELSE
      LET symbols == Keys(c.occurences)
          st == OxLoop([ox_nums |-> <<>>, left |-> symbols, exc |-> "none"], symbols)
      IN IF st.exc # "none" THEN [val |-> None, exc |-> st.exc]
         ELSE IF Len(st.left) > 1 THEN [val |-> None, exc |-> "NotImplementedError"]
         ELSE IF Len(st.left) = 0 THEN [val |-> None, exc |-> "IndexError"]
         ELSE [val |-> Put(st.ox_nums, st.left[1],
                           TruncDiv(-current(st.ox_nums, c.occurences),
                                    Get(c.occurences, st.left[1]))),
               exc |-> "none"]

\* -------------------------------------------------------------- fractions
RECURSIVE GCD(_, _)
GCD(a, b) == IF b = 0 THEN Abs(a) ELSE GCD(b, a % b)
LCM(a, b) == (a \div GCD(a, b)) * b

\* the fraction n/d in lowest terms with a positive denominator
Lowest(n, d, g) ==
    IF d < 0 THEN <<(-n) \div g, (-d) \div g>> ELSE <<n \div g, d \div g>>
Frac(n, d) == Lowest(n, d, GCD(Abs(n), Abs(d)))
FInt(n) == <<n, 1>>
FAdd(x, y) == Frac(x[1] * y[2] + y[1] * x[2], x[2] * y[2])
FSub(x, y) == Frac(x[1] * y[2] - y[1] * x[2], x[2] * y[2])
FMul(x, y) == Frac(x[1] * y[1], x[2] * y[2])
FDiv(x, y) == Frac(x[1] * y[2], x[2] * y[1])
FLess(x, y) == x[1] * y[2] < y[1] * x[2]
RECURSIVE FPow(_, _)
FPow(x, n) == IF n = 0 THEN FInt(1) ELSE FMul(x, FPow(x, n - 1))

\* the first row from r on with a non-zero entry in column c, or 0
PivotRow(M, r, c) ==
    IF \A i \in r..Len(M) : M[i][c][1] = 0 THEN 0
    ELSE CHOOSE i \in r..Len(M) :
            M[i][c][1] # 0 /\ \A j \in r..(i - 1) : M[j][c][1] = 0

\* rows r and p exchanged
Swap(M, r, p) ==
    List([i \in 1..Len(M) |-> IF i = r THEN M[p] ELSE IF i = p THEN M[r] ELSE M[i]])

\* a row divided by its pivot
Normalised(row, pivot) == List([j \in 1..Len(row) |-> FDiv(row[j], pivot)])

\* a row less factor times the pivot row
ClearRow(row, factor, prow) ==
    List([j \in 1..Len(row) |-> FSub(row[j], FMul(factor, prow[j]))])

\* column c cleared outside row r, which becomes prow
Clear(M, r, c, prow) ==
    List([i \in 1..Len(M) |-> IF i = r THEN prow ELSE ClearRow(M[i], M[i][c], prow)])

Pivoted(M, r, c) == Clear(M, r, c, Normalised(M[r], M[r][c]))

\* sympy.Matrix.rref: Gauss-Jordan elimination on exact fractions, from pivot
\* row r and column c on; M is a sequence of rows, p the pivot row found
RECURSIVE Reduce(_, _, _), ReduceAt(_, _, _, _)
ReduceAt(M, r, c, p) ==
    IF p = 0 THEN Reduce(M, r, c + 1)
    ELSE Reduce(Pivoted(Swap(M, r, p), r, c), r + 1, c + 1)

Reduce(M, r, c) ==
    IF r > Len(M) \/ c > Len(M[1]) THEN M ELSE ReduceAt(M, r, c, PivotRow(M, r, c))

rref(M) == Reduce(M, 1, 1)

\* --------------------------------------------------------------- Reaction
ARROW == <<" --> ">>

\* the per-element totals of reinit over the compounds of `side`: the keys in
\* the order the loop first meets them, each with the sum of its counts
Total(side, key) ==
    SumSeq([i \in 1..Len(side) |->
              IF Has(side[i].occurences, key) THEN Get(side[i].occurences, key) ELSE 0])

Totals(side, keys) == List([n \in 1..Len(keys) |-> <<keys[n], Total(side, keys[n])>>])

AddOccurences(side) ==
    Totals(side, Dedup(Concat([i \in 1..Len(side) |-> Keys(side[i].occurences)])))

\* Reaction.update_formula: the coefficients and constituents
formulas_of(side) == List([i \in 1..Len(side) |-> side[i].formula])

counted(constituents, list) ==
    [coefficients |-> List([i \in 1..Len(constituents) |->
                              <<constituents[i], Count(constituents[i], list)>>]),
     constituents |-> constituents]

written(list) == counted(Remove(Dedup(list), ARROW), list)

update_formula(reactants, products) ==
    written(formulas_of(reactants) \o <<ARROW>> \o formulas_of(products))

\* Reaction.reinit; the loop over [self.reactants, self.products] tells the two
\* sides apart by `i == self.reactants`, list equality
reinit_with(reactants, products, u) ==
    [reactants |-> reactants,
     products |-> products,
     reactant_formulas |-> formulas_of(reactants),
     product_formulas |-> formulas_of(products),
     coefficients |-> u.coefficients,
     constituents |-> u.constituents,
     reactant_occurences |->
         AddOccurences(IF products = reactants THEN reactants \o products
                       ELSE reactants),
     product_occurences |->
         AddOccurences(IF products = reactants THEN <<>> ELSE products)]

reinit(reactants, products) ==
    reinit_with(reactants \o <<>>, products \o <<>>, update_formula(reactants, products))

\* Reaction.compounds
compounds(r) == r.reactants \o r.products

\* Reaction.is_balanced
is_balanced(r) == DictEq(r.reactant_occurences, r.product_occurences)

\* the membership test of the dedup loop left out: every compound is kept
DistinctCompounds_all(cs, seen) == cs

\* the first compound of each formula, in order (the dedup loops of balance,
\* get_amounts and limiting_reagent)
DistinctCompounds(cs, seen) ==
    Pick(cs, {i \in 1..Len(cs) :
                /\ ~In(cs[i].formula, seen)
                /\ \A j \in 1..(i - 1) : cs[j].formula # cs[i].formula})

\* seen_formulas of balance: the element symbols in first-seen order
symbols_of(cs) == Dedup(Concat([i \in 1..Len(cs) |-> Elements(cs[i])]))

seen_symbols(r) == symbols_of(compounds(r))

\* the matrix handed to sympy: one row per element, one column per distinct
\* compound, a product's column negated
entry(r, c, m) ==
    IF Has(c.occurences, m)
    THEN IF In(c.formula, r.product_formulas)
         THEN -Get(c.occurences, m) ELSE Get(c.occurences, m)
    ELSE 0

matrix_of(r, cs, syms) ==
    List([i \in 1..Len(syms) |->
            List([j \in 1..Len(cs) |-> FInt(entry(r, cs[j], syms[i]))])])

matrix(r) == matrix_of(r, DistinctCompounds(compounds(r), <<>>), seen_symbols(r))

\* the denominators multiplied together instead of their least common multiple
RECURSIVE LCMSeq_product(_)
LCMSeq_product(s) == IF Len(s) = 0 THEN 1 ELSE Head(s) * LCMSeq_product(Tail(s))

RECURSIVE LCMSeq(_)
LCMSeq(s) == IF Len(s) = 0 THEN 1 ELSE LCM(Head(s), LCMSeq(Tail(s)))

\* while 0 in solutions: solutions.remove(0)
RECURSIVE DropZeros(_)
DropZeros(s) ==
    IF Len(s) = 0 THEN <<>>
    ELSE IF Head(s) = 0 THEN DropZeros(Tail(s)) ELSE <<Head(s)>> \o DropZeros(Tail(s))

\* lines 271-284: the integer solutions read off the last column of the rref
last_column(R) == List([i \in 1..Len(R) |-> R[i][Len(R[i])]])

denominators(column) == List([i \in 1..Len(column) |-> column[i][2]])

scaled(column, lcm) ==
    List([i \in 1..Len(column) |-> Abs((lcm * column[i][1]) \div column[i][2])])

with_lcm(kept, lcm, n) == IF n > Len(kept) THEN Append(kept, lcm) ELSE kept

scaled_by(column, lcm, n) == with_lcm(DropZeros(scaled(column, lcm)), lcm, n)

solutions_of(column, n) == scaled_by(column, LCMSeq(denominators(column)), n)

solve(r) ==
    solutions_of(last_column(rref(matrix(r))),
                 Len(DistinctCompounds(compounds(r), <<>>)))

\* lines 286-297: each distinct compound repeated by its solution, per side
final_side(cs, solutions, formulas) ==
    Concat([i \in 1..Len(cs) |->
              IF In(cs[i].formula, formulas) THEN Repeat(cs[i], solutions[i]) ELSE <<>>])

\* the loop of lines 289-294 run over range(len(solutions)) instead of
\* range(len(compounds)): the compounds that have no solution are left out
balanced_with_short(r, cs, solutions) ==
    [self |-> reinit(final_side(SubSeq(cs, 1, Len(solutions)), solutions,
                                r.reactant_formulas),
                     final_side(SubSeq(cs, 1, Len(solutions)), solutions,
                                r.product_formulas)),
     exc |-> "none"]

\* Reaction.balance: [self |-> the Reaction afterwards, exc |-> the exception]
balanced_with(r, cs, solutions) ==
    IF Len(solutions) < Len(cs) THEN [self |-> r, exc |-> "IndexError"]
    ELSE [self |-> reinit(final_side(cs, solutions, r.reactant_formulas),
                          final_side(cs, solutions, r.product_formulas)),
          exc |-> "none"]

balance(r) ==
    IF is_balanced(r) THEN [self |-> r, exc |-> "none"]
    ELSE balanced_with(r, DistinctCompounds(compounds(r), <<>>), solve(r))

\* Reaction.by_formula after the split: one new Compound per formula written,
\* then Reaction.__init__
by_formula(rs, ps) ==
    reinit(List([i \in 1..Len(rs) |-> Compound(i, rs[i])]),
           List([i \in 1..Len(ps) |-> Compound(Len(rs) + i, ps[i])]))

\* ------------------------------------------------------ amounts of matter
\* chemlib.constants.AVOGADROS_NUMBER: molecule counts are kept in units of
\* Avogadro's number, so the constant is the unit
AVOGADROS_NUMBER == FInt(1)

\* the keyword names both get_amounts and limiting_reagent accept
QUANTITIES == {"grams", "moles", "molecules"}

\* chemlib.utils.DimensionalAnalyzer(...).plug(**{name: value}) for the ring
\* grams <- moles <- molecules <- grams of a compound of molar mass mm
plug(mm, name, value) ==
    CASE name = "moles" ->
           LET grams == FMul(value, FInt(mm))
           IN [grams |-> grams, moles |-> value,
               molecules |-> FMul(FDiv(grams, FInt(mm)), AVOGADROS_NUMBER)]
      [] name = "grams" ->
           LET molecules == FMul(FDiv(value, FInt(mm)), AVOGADROS_NUMBER)
           IN [grams |-> value, moles |-> FDiv(molecules, AVOGADROS_NUMBER),
               molecules |-> molecules]
      [] name = "molecules" ->
           LET moles == FDiv(value, AVOGADROS_NUMBER)
           IN [grams |-> FMul(moles, FInt(mm)), moles |-> moles,
               molecules |-> value]

\* amounts[name]
Quantity(amounts, name) ==
    CASE name = "moles" -> amounts.moles
      [] name = "grams" -> amounts.grams
      [] name = "molecules" -> amounts.molecules

\* the check both get_amounts make of their keyword arguments
BadKwargs(kwargs) == Len(kwargs) # 1 \/ ~(kwargs[1][1] \in QUANTITIES)

\* Compound.get_amounts(**kwargs): [val, exc]
compound_get_amounts(c, kwargs) ==
    IF BadKwargs(kwargs) THEN [val |-> None, exc |-> "TypeError"]
    ELSE [val |-> plug(molar_mass(c), kwargs[1][1], kwargs[1][2]), exc |-> "none"]

\* the range check with its upper end one too low
OutOfRange_strict(compound_number, compound_list) ==
    compound_number >= Len(compound_list) \/ compound_number < 1

\* compound_frequency[index] / compound_frequency[compound]: the ratio upside down
multiplier_inverted(frequency, index_multiplier) == Frac(index_multiplier, frequency)

\* multiplier / index_multiplier, appended to multipliers
multiplier_of(frequency, index_multiplier) == Frac(frequency, index_multiplier)

\* the range check of get_amounts on compound_number
OutOfRange(compound_number, compound_list) ==
    compound_number > Len(compound_list) \/ compound_number < 1

\* Reaction.get_amounts(compound_number, **kwargs) from line 314 on, b being
\* what self.balance() on line 312 left: [self, val, exc]
amounts_after(b, compound_number, kwargs) ==
    LET me == b.self
        compound_list == DistinctCompounds(compounds(me), <<>>)
        seen_formulas == [i \in 1..Len(compounds(me)) |-> compounds(me)[i].formula]
        frequency(f) == Count(f, seen_formulas)
        index_compound == compound_list[compound_number]
        index_amounts == compound_get_amounts(index_compound, kwargs).val
        index_moles == index_amounts.moles
        index_multiplier == frequency(index_compound.formula)
        multipliers == [i \in 1..Len(compound_list) |->
                          multiplier_of(frequency(compound_list[i].formula),
                                        index_multiplier)]
        amounts == [i \in 1..Len(compound_list) |->
                      IF i = compound_number THEN index_amounts
                      ELSE plug(molar_mass(compound_list[i]), "moles",
                                FMul(index_moles, multipliers[i]))]
    IN IF b.exc # "none" THEN [self |-> me, val |-> None, exc |-> b.exc]
       ELSE IF BadKwargs(kwargs) THEN [self |-> me, val |-> None, exc |-> "TypeError"]
       ELSE IF OutOfRange(compound_number, compound_list)
            THEN [self |-> me, val |-> None, exc |-> "ValueError"]
       ELSE [self |-> me, val |-> amounts, exc |-> "none"]

\* Reaction.get_amounts(compound_number, **kwargs): [self, val, exc]
get_amounts(r, compound_number, kwargs) ==
    amounts_after(balance(r), compound_number, kwargs)

\* `if not self.is_balanced: self.balance()`
ensure_balanced(r) ==
    IF ~is_balanced(r) THEN balance(r) ELSE [self |-> r, exc |-> "none"]

\* np.argmin: the first index of the least entry
argmin(data) ==
    CHOOSE i \in 1..Len(data) :
        /\ \A j \in 1..Len(data) : ~FLess(data[j], data[i])
        /\ \A j \in 1..(i - 1) : FLess(data[i], data[j])

\* eq_amounts of limiting_reagent: self.get_amounts(i + 1, moles=moles[i]) for
\* each reactant in turn, each call starting from the Reaction the last one left
RECURSIVE eq_amounts_from(_, _, _)
eq_amounts_from(me, moles, i) ==
    IF i > Len(moles) THEN <<>>
    ELSE LET g == get_amounts(me, i, <<<<"moles", moles[i]>>>>)
         IN <<g>> \o eq_amounts_from(g.self, moles, i + 1)

\* Reaction.limiting_reagent(*args, mode=mode), b being what lines 367-368 left
\* of the Reaction r: [self, val, exc]
limiting_after(r, b, arguments, mode) ==
    LET me == b.self
        reactants == DistinctCompounds(me.reactants, <<>>)
        amounts == [i \in 1..Len(arguments) |->
                      compound_get_amounts(reactants[i], <<<<mode, arguments[i]>>>>).val]
        moles == [i \in 1..Len(arguments) |-> amounts[i].moles]
        eq_amounts == eq_amounts_from(me, moles, 1)
        data == [i \in 1..Len(arguments) |->
                   Quantity(eq_amounts[i].val[Len(eq_amounts[i].val)], mode)]
    IN IF ~(mode \in QUANTITIES) THEN [self |-> r, val |-> None, exc |-> "ValueError"]
       ELSE IF b.exc # "none" THEN [self |-> me, val |-> None, exc |-> b.exc]
       ELSE IF Len(arguments) # Len(reactants)
            THEN [self |-> me, val |-> None, exc |-> "TypeError"]
       ELSE [self |-> eq_amounts[Len(arguments)].self,
             val |-> reactants[argmin(data)], exc |-> "none"]

\* Reaction.limiting_reagent(*args, mode=mode): [self, val, exc]
limiting_reagent(r, arguments, mode) ==
    limiting_after(r, ensure_balanced(r), arguments, mode)

\* the ending concentration of constituent i: the loop body of lines 419-430
new_ending_at(me, starting_conc, ending_conc, chosen, i) ==
    LET cmpd == me.constituents[i]
        coefficient == Get(me.coefficients, cmpd)
        conc_change == FSub(ending_conc[chosen], starting_conc[chosen])
        multiplier == IF FLess(FInt(0), conc_change) THEN 1 ELSE -1
        m == IF In(cmpd, me.reactant_formulas) THEN -1 ELSE 1
    IN IF i # chosen
       THEN FAdd(starting_conc[i],
                 FMul(FMul(conc_change,
                           Frac(coefficient, Get(me.coefficients, me.constituents[chosen]))),
                      FInt(m * multiplier)))
       ELSE ending_conc[i]

\* kc after the loop has run over constituents i..n; "ZeroDivisionError" once a
\* reactant's ending concentration is 0
RECURSIVE kc_from(_, _, _, _)
kc_from(me, new_ending, i, kc) ==
    IF i > Len(new_ending) THEN kc
    ELSE LET cmpd == me.constituents[i]
             power == FPow(new_ending[i], Get(me.coefficients, cmpd))
         IN IF In(cmpd, me.reactant_formulas)
            THEN IF power[1] = 0 THEN "ZeroDivisionError"
                 ELSE kc_from(me, new_ending, i + 1, FMul(kc, FDiv(FInt(1), power)))
            ELSE kc_from(me, new_ending, i + 1, FMul(kc, power))

\* Reaction.equilibrium_concentrations(starting_conc, ending_conc), b being what
\* lines 398-399 left: [self, val, exc]; val is the dict returned, its last key "Kc"
equilibrium_after(b, starting_conc, ending_conc) ==
    LET me == b.self
        n == Len(ending_conc)
        known == {i \in 1..n : ending_conc[i] # None}
        chosen == CHOOSE i \in known : \A j \in known : j <= i
        new_ending == [i \in 1..n |->
                         new_ending_at(me, starting_conc, ending_conc, chosen, i)]
        kc == kc_from(me, new_ending, 1, FInt(1))
    IN IF b.exc # "none" THEN [self |-> me, val |-> None, exc |-> b.exc]
       ELSE IF Len(starting_conc) # n /\ n # Len(me.constituents)
            THEN [self |-> me, val |-> None, exc |-> "ValueError"]
       ELSE IF \E i \in 1..Len(starting_conc) : starting_conc[i] = None
            THEN [self |-> me, val |-> None, exc |-> "ValueError"]
       ELSE IF known = {} THEN [self |-> me, val |-> None, exc |-> "ValueError"]
       ELSE IF n > Len(me.constituents) \/ n > Len(starting_conc)
            THEN [self |-> me, val |-> None, exc |-> "IndexError"]  \* constituents[i], starting_conc[i]
       ELSE IF kc = "ZeroDivisionError"
            THEN [self |-> me, val |-> None, exc |-> "ZeroDivisionError"]
       ELSE [self |-> me,
             val |-> [i \in 1..n |-> <<me.constituents[i], new_ending[i]>>]
                     \o << <<"Kc", kc>> >>,
             exc |-> "none"]

equilibrium_concentrations(r, starting_conc, ending_conc) ==
    equilibrium_after(ensure_balanced(r), starting_conc, ending_conc)

\* --------------------------------------------------- inputs of Reaction
\* the formulas a reaction is written with
Catalogue == {<<"H", "2">>, <<"O", "2">>, <<"H", "2", "O">>, <<"N", "2">>,
              <<"N", "H", "3">>}

\* the ways to write one side with exactly n compounds
RECURSIVE SidesOf(_)
SidesOf(n) ==
    IF n = 0 THEN {<<>>}
    ELSE {<<f>> \o rest : f \in Catalogue, rest \in SidesOf(n - 1)}

Sides == UNION {SidesOf(n) : n \in 1..MaxSide}

\* the formulas the reactions handed to the derived-quantity calls are written with
Reagents == Catalogue \ {<<"H", "2", "O">>}

Amounts == {FInt(m) : m \in 1..MaxAmount}

KwargsInputs ==
    {<< <<"moles", a>> >> : a \in Amounts}
    \cup {<< <<"grams", FInt(MaxAmount)>> >>, << <<"molecules", FInt(MaxAmount)>> >>,
          << <<"liters", FInt(1)>> >>, <<>>}

ArgumentInputs == UNION {[1..n -> Amounts] : n \in 1..MaxSide}
ModeInputs == {"moles", "grams", "liters"}

StartingInputs(n) == [1..n -> {FInt(1), FInt(MaxAmount)}]
EndingInputs(n) == [1..n -> {None, FInt(MaxAmount - 1)}] \cup {[i \in 1..(n - 1) |-> FInt(1)]}

\* ------------------------------------------------- inputs of parse_formula
ElemTokens == {<<"M", "g">>, <<"O">>, <<"H">>, <<"H", "2">>}
Multipliers == {<<>>, <<"2">>}

\* the strings made of exactly k element tokens
RECURSIVE TokenStrings(_)
TokenStrings(k) ==
    IF k = 0 THEN {<<>>}
    ELSE {t \o f : t \in ElemTokens, f \in TokenStrings(k - 1)}

\* the formulas with exactly n element tokens, in and out of (non-nested) groups
RECURSIVE Formulas(_)
Formulas(n) ==
    IF n = 0 THEN {<<>>}
    ELSE {t \o f : t \in ElemTokens, f \in Formulas(n - 1)}
         \cup UNION {{<<"(">> \o g \o <<")">> \o m \o f :
                        g \in TokenStrings(k), m \in Multipliers, f \in Formulas(n - k)} :
                     k \in 1..n}

FormulaInputs(max) == UNION {Formulas(n) : n \in 1..max}

\* ----------------------------------------------------- inputs of Compound
Symbols == {<<"H">>, <<"O">>, <<"F">>, <<"C">>, <<"N">>, <<"N", "a">>,
            <<"M", "g">>, <<"F", "e">>}
Subscripts == {<<>>, <<"2">>, <<"3">>, <<"4">>}

RECURSIVE PlainFormulas(_)
PlainFormulas(n) ==
    IF n = 0 THEN {<<>>}
    ELSE {sym \o sub \o f : sym \in Symbols, sub \in Subscripts, f \in PlainFormulas(n - 1)}

CompoundInputs(max) == UNION {PlainFormulas(n) : n \in 1..max}

\* ------------------------------------------------ the parse_formula machine
\* no call made yet, or the last one taken note of
Ready ==
    pc = "ready" /\ op = "none" /\ args = None /\ ret = None /\ err = "none"
    /\ pre = NoCall

\* the caller takes the result and is ready for the next call
Resume ==
    /\ pc = "returned"
    /\ pc' = "ready" /\ op' = "none" /\ args' = None /\ ret' = None /\ err' = "none"
    /\ pre' = NoCall
    /\ UNCHANGED <<formula, compound, self>>

InitParse ==
    /\ formula \in FormulaInputs(MaxTokens)
    /\ compound = NoCompound /\ self = NoReaction
    /\ Ready

ParseFormula ==
    /\ pc = "ready" /\ self = NoReaction /\ compound = NoCompound
    /\ pc' = "returned" /\ op' = "parse_formula" /\ args' = formula
    /\ ret' = parse_formula(formula)
    /\ err' = "none"
    /\ UNCHANGED <<formula, compound, self, pre>>

NextParse == ParseFormula \/ Resume

SpecParse == InitParse /\ [][NextParse]_vars

\* ----------------------------------------------------- the Compound machine
InitCompound ==
    /\ formula \in CompoundInputs(MaxElems)
    /\ compound = Compound(1, formula)
    /\ self = NoReaction
    /\ Ready

OxidationNumbers ==
    /\ pc = "ready" /\ compound # NoCompound
    /\ LET r == oxidation_numbers(compound)
       IN ret' = r.val /\ err' = r.exc
    /\ pc' = "returned" /\ op' = "oxidation_numbers" /\ args' = None
    /\ UNCHANGED <<formula, compound, self, pre>>

MolarMass ==
    /\ pc = "ready" /\ compound # NoCompound
    /\ ret' = molar_mass(compound) /\ err' = "none"
    /\ pc' = "returned" /\ op' = "molar_mass" /\ args' = None
    /\ UNCHANGED <<formula, compound, self, pre>>

NextCompound == OxidationNumbers \/ MolarMass \/ Resume

SpecCompound == InitCompound /\ [][NextCompound]_vars

\* ----------------------------------------------------- the Reaction machine
\* Reaction.by_formula(...) for every reaction of at most MaxSide compounds a
\* side and MaxSide + 2 in all
InitBalance ==
    /\ \E rs \in Sides, ps \in Sides :
          /\ Len(rs) + Len(ps) <= MaxSide + 2
          /\ self = by_formula(rs, ps)
    /\ formula = NoFormula /\ compound = NoCompound
    /\ Ready

\* the same, for the reactions of at most MaxSide + 1 compounds in all that are
\* written with the Reagents
Init ==
    /\ \E rs \in Sides, ps \in Sides :
          /\ Len(rs) + Len(ps) <= MaxSide + 1
          /\ \A i \in 1..Len(rs) : rs[i] \in Reagents
          /\ \A i \in 1..Len(ps) : ps[i] \in Reagents
          /\ self = by_formula(rs, ps)
    /\ formula = NoFormula /\ compound = NoCompound
    /\ Ready

\* what the call that begins now finds
Before == [reactants |-> self.reactants, products |-> self.products]

Balance ==
    /\ pc = "ready" /\ self # NoReaction
    /\ LET b == balance(self)
       IN self' = b.self /\ err' = b.exc
    /\ ret' = None /\ args' = None /\ op' = "balance" /\ pre' = Before
    /\ pc' = "returned"
    /\ UNCHANGED <<formula, compound>>

GetAmounts ==
    /\ pc = "ready" /\ self # NoReaction
    /\ LET b == balance(self)
       IN \E compound_number \in 0..MaxNumber, kwargs \in KwargsInputs :
             LET g == amounts_after(b, compound_number, kwargs)
             IN /\ self' = g.self /\ ret' = g.val /\ err' = g.exc
                /\ args' = <<compound_number, kwargs>>
    /\ op' = "get_amounts" /\ pre' = Before
    /\ pc' = "returned"
    /\ UNCHANGED <<formula, compound>>

LimitingReagent ==
    /\ pc = "ready" /\ self # NoReaction
    /\ LET b == ensure_balanced(self)
       IN \E arguments \in ArgumentInputs, mode \in ModeInputs :
             LET l == limiting_after(self, b, arguments, mode)
             IN /\ self' = l.self /\ ret' = l.val /\ err' = l.exc
                /\ args' = <<arguments, mode>>
    /\ op' = "limiting_reagent" /\ pre' = Before
    /\ pc' = "returned"
    /\ UNCHANGED <<formula, compound>>

EquilibriumConcentrations ==
    /\ pc = "ready" /\ self # NoReaction
    /\ LET b == ensure_balanced(self)
       IN \E starting_conc \in StartingInputs(Len(self.constituents)),
             ending_conc \in EndingInputs(Len(self.constituents)) :
             LET e == equilibrium_after(b, starting_conc, ending_conc)
             IN /\ self' = e.self /\ ret' = e.val /\ err' = e.exc
                /\ args' = <<starting_conc, ending_conc>>
    /\ op' = "equilibrium_concentrations" /\ pre' = Before
    /\ pc' = "returned"
    /\ UNCHANGED <<formula, compound>>

NextBalance == Balance \/ Resume

SpecBalance == InitBalance /\ [][NextBalance]_vars

\* the same machine for the reactions written with the compounds of hydrogen
\* and oxygen alone: two elements, so that four distinct compounds leave the
\* conservation system two free variables
HydrogenOxygen == {<<"H", "2">>, <<"O", "2">>, <<"H", "2", "O">>, <<"O", "3">>,
                   <<"H", "2", "O", "2">>}

\* the ways to write one side with exactly n of them
RECURSIVE HydrogenOxygenSidesOf(_)
HydrogenOxygenSidesOf(n) ==
    IF n = 0 THEN {<<>>}
    ELSE {<<f>> \o rest : f \in HydrogenOxygen, rest \in HydrogenOxygenSidesOf(n - 1)}

HydrogenOxygenSides(max) == UNION {HydrogenOxygenSidesOf(n) : n \in 1..max}

InitUnsupported ==
    /\ \E rs \in HydrogenOxygenSides(MaxSide), ps \in HydrogenOxygenSides(MaxSide) :
          /\ Len(rs) + Len(ps) <= MaxSide + 2
          /\ self = by_formula(rs, ps)
    /\ formula = NoFormula /\ compound = NoCompound
    /\ Ready

SpecUnsupported == InitUnsupported /\ [][NextBalance]_vars

NextAmounts == Balance \/ GetAmounts \/ Resume

SpecAmounts == Init /\ [][NextAmounts]_vars

Next == Balance \/ GetAmounts \/ LimitingReagent \/ EquilibriumConcentrations \/ Resume

Spec == Init /\ [][Next]_vars

\* ------------------------------------------------- what the claims speak of
\* the Reaction as it was when the last call began
PreReaction == reinit(pre.reactants, pre.products)

\* the distinct compounds of a Reaction, in first-appearance order
Distinct(r) == DistinctCompounds(compounds(r), <<>>)

\* the rank of the element-conservation system of a Reaction
Rank(r) ==
    LET R == rref(matrix(r))
    IN Cardinality({i \in 1..Len(R) : \E j \in 1..Len(R[i]) : R[i][j][1] # 0})

OneFreeVariable(r) == Rank(r) = Len(Distinct(r)) - 1

\* every compound is written on one side only
OneSided(r) == \A i \in 1..Len(r.reactant_formulas) :
                   ~In(r.reactant_formulas[i], r.product_formulas)

\* x, one coefficient per distinct compound of r, conserves every element:
\* the atoms of the reactants so weighted are those of the products
RECURSIVE SignedRow(_, _, _, _)
SignedRow(r, cs, m, i) ==
    IF i > Len(cs) THEN <<>>
    ELSE LET n == IF Has(cs[i].occurences, m) THEN Get(cs[i].occurences, m) ELSE 0
             onleft == IF In(cs[i].formula, r.reactant_formulas) THEN n ELSE 0
             onright == IF In(cs[i].formula, r.product_formulas) THEN n ELSE 0
         IN <<onleft - onright>> \o SignedRow(r, cs, m, i + 1)

RECURSIVE SignedRows(_, _, _, _)
SignedRows(r, cs, syms, k) ==
    IF k > Len(syms) THEN <<>>
    ELSE <<SignedRow(r, cs, syms[k], 1)>> \o SignedRows(r, cs, syms, k + 1)

\* per element, the atoms each distinct compound brings to the reactants less
\* those it brings to the products
SignedAtoms(r) == SignedRows(r, Distinct(r), seen_symbols(r), 1)

RECURSIVE Dot(_, _, _)
Dot(row, x, i) == IF i > Len(row) THEN 0 ELSE row[i] * x[i] + Dot(row, x, i + 1)

ConservesAtoms(A, x) == \A k \in 1..Len(A) : Dot(A[k], x, 1) = 0

Conserves(r, x) == ConservesAtoms(SignedAtoms(r), x)

RECURSIVE GCDSeq(_)
GCDSeq(s) == IF Len(s) = 0 THEN 0 ELSE GCD(Head(s), GCDSeq(Tail(s)))

\* the coefficients of r, one per distinct compound
RECURSIVE CoefficientsOf(_, _, _)
CoefficientsOf(r, cs, i) ==
    IF i > Len(cs) THEN <<>>
    ELSE <<Get(r.coefficients, cs[i].formula)>> \o CoefficientsOf(r, cs, i + 1)

CoefficientVector(r) == CoefficientsOf(r, Distinct(r), 1)

Returned(name) == pc = "returned" /\ op = name /\ err = "none"
Raised(name, exc) == pc = "returned" /\ op = name /\ err = exc

\* ------------------------------------------------------------------ claims

\* C1 (as claimed): whenever balance() returns on a Reaction whose
\* element-conservation system has exactly one free variable (rank n - 1 in
\* its n distinct compounds), the Reaction is balanced afterwards:
\* reactant_occurences and product_occurences are equal as maps.
C1_Conservation ==
    (Returned("balance") /\ OneFreeVariable(PreReaction)) => is_balanced(self)

\* C2: once balance() has returned, a second balance() returns too and leaves
\* the Reaction (reactants, products, coefficients, constituents) as the first
\* call left it; and a balance() that finds the Reaction balanced changes nothing.
C2_Idempotent ==
    Returned("balance") =>
        LET again == balance(self)
        IN /\ again.exc = "none"
           /\ again.self = self
           /\ is_balanced(PreReaction) =>
                 self.reactants = pre.reactants /\ self.products = pre.products

\* a first balance() that rewrote the Reaction, so that the second call has
\* something to keep
C2_Witness ==
    /\ Returned("balance")
    /\ self.reactants # pre.reactants
    /\ Len(self.reactants) > MaxSide
    /\ balance(self).self = self

\* C3: when balance() runs on an unbalanced Reaction whose compounds are each
\* written on one side and whose conservation system has a strictly positive
\* solution that is unique up to scale, it returns, and the coefficients are
\* that solution in smallest terms: positive integers that conserve every
\* element and have greatest common divisor 1, every compound still on its side.
C3_Precondition ==
    /\ op = "balance" /\ pc = "returned"
    /\ LET r == PreReaction
       IN /\ ~is_balanced(r)
          /\ OneSided(r)
          /\ OneFreeVariable(r)
          /\ LET A == SignedAtoms(r)
             IN \E x \in [1..Len(A[1]) -> 1..MaxCoefficient] : ConservesAtoms(A, x)

C3_SmallestCoefficients ==
    C3_Precondition =>
        LET r == PreReaction
            x == CoefficientVector(self)
        IN /\ err = "none"
           /\ Len(x) = Len(Distinct(r))
           /\ \A i \in 1..Len(x) : Distinct(self)[i].formula = Distinct(r)[i].formula
           /\ \A i \in 1..Len(self.reactants) :
                 In(self.reactants[i].formula, r.reactant_formulas)
           /\ \A i \in 1..Len(self.products) :
                 In(self.products[i].formula, r.product_formulas)
           /\ \A i \in 1..Len(x) : x[i] >= 1
           /\ Conserves(r, x)
           /\ GCDSeq(x) = 1

\* H2 + O2 > H2O balanced to 2 H2 + O2 > 2 H2O
C3_Witness ==
    /\ C3_Precondition
    /\ [i \in 1..Len(pre.reactants) |-> pre.reactants[i].occurences]
         = << << <<<<"H">>, 2>> >>, << <<<<"O">>, 2>> >> >>
    /\ self.coefficients
         = << <<<<"H", "_2">>, 2>>, <<<<"O", "_2">>, 1>>, <<<<"H", "_2", "O", "_1">>, 2>> >>


\* the element tokens of a formula with non-nested groups, in order: symbol,
\* subscript and the group it stands in (0 at top level, else 1, 2, ...)
RECURSIVE TokensFrom(_, _, _, _)
TokensFrom(s, i, g, ngroups) ==
    IF i > Len(s) THEN <<>>
    ELSE IF s[i] = "(" THEN TokensFrom(s, i + 1, ngroups + 1, ngroups + 1)
    ELSE IF s[i] = ")" THEN TokensFrom(s, DigitsEnd(s, i + 1) + 1, 0, ngroups)
    ELSE IF s[i] \in Upper
    THEN LET q == IF i + 1 <= Len(s) /\ s[i + 1] \in Lower THEN i + 1 ELSE i
             r == DigitsEnd(s, q + 1)
             n == IF r = q THEN 1 ELSE int(SubSeq(s, q + 1, r))
         IN <<[elem |-> SubSeq(s, i, q), n |-> n, group |-> g]>>
              \o TokensFrom(s, r + 1, g, ngroups)
    ELSE TokensFrom(s, i + 1, g, ngroups)

Tokens(s) == TokensFrom(s, 1, 0, 0)

\* the multipliers of the groups of a formula, in order
RECURSIVE GroupMultipliers(_, _)
GroupMultipliers(s, i) ==
    LET close == Find(s, ")", i)
    IN IF close = 0 THEN <<>>
       ELSE LET last == DigitsEnd(s, close + 1)
            IN <<IF last = close THEN 1 ELSE int(SubSeq(s, close + 1, last))>>
                 \o GroupMultipliers(s, last + 1)

\* the atoms of sym a formula stands for: top-level subscripts, and in-group
\* subscripts times the multiplier of their group
Atoms(s, sym) ==
    LET ts == Tokens(s)
        ms == GroupMultipliers(s, 1)
    IN SumSeq([i \in 1..Len(ts) |->
                 IF ts[i].elem # sym THEN 0
                 ELSE IF ts[i].group = 0 THEN ts[i].n ELSE ts[i].n * ms[ts[i].group]])

\* the groups of a formula in which sym occurs
GroupsWith(s, sym) ==
    {Tokens(s)[i].group : i \in {j \in 1..Len(Tokens(s)) :
                                   Tokens(s)[j].elem = sym /\ Tokens(s)[j].group # 0}}

SymbolsOf(s) == {Tokens(s)[i].elem : i \in 1..Len(Tokens(s))}

\* C4 (as claimed): for a formula with one non-nested group, whatever the
\* number of element tokens in the group, parse_formula returns for every
\* symbol its top-level subscripts plus the multiplier times its in-group
\* subscripts: an in-group token is counted once, by the group pass only.
C4_InGroupCountedOnce ==
    (Returned("parse_formula") /\ Len(GroupMultipliers(formula, 1)) = 1) =>
        /\ {ret[i][1] : i \in 1..Len(ret)} = SymbolsOf(formula)
        /\ \A i \in 1..Len(ret) : ret[i][2] = Atoms(formula, ret[i][1])

\* C5 (as claimed): a symbol that occurs in two or more groups of a formula is
\* returned with the sum over those groups of in-group count times multiplier
\* (here every such formula has all its tokens of that symbol counted).
C5_SummedAcrossGroups ==
    Returned("parse_formula") =>
        \A sym \in SymbolsOf(formula) :
            Cardinality(GroupsWith(formula, sym)) >= 2 =>
                Has(ret, sym) /\ Get(ret, sym) = Atoms(formula, sym)

\* an element whose oxidation number the fixed rules give
Determined(sym) == Has(table, sym) \/ Group(sym) < 3

Undetermined(c) ==
    {i \in 1..Len(c.occurences) : ~Determined(c.occurences[i][1])}

\* C8 (as claimed): for a Compound of at least two distinct elements of which
\* the fixed rules leave at most one undetermined, oxidation_numbers() returns
\* a map with an entry for every element of the compound, and the oxidation
\* numbers times the occurrence counts sum to zero.
C8_SumToZero ==
    (pc = "returned" /\ op = "oxidation_numbers"
       /\ Len(compound.occurences) >= 2
       /\ Cardinality(Undetermined(compound)) <= 1) =>
        /\ err = "none"
        /\ {ret[i][1] : i \in 1..Len(ret)}
             = {compound.occurences[i][1] : i \in 1..Len(compound.occurences)}
        /\ SumSeq([i \in 1..Len(ret) |->
                     ret[i][2] * Get(compound.occurences, ret[i][1])]) = 0

FEq(a, b) == a[1] * b[2] = b[1] * a[2]

\* the last call was get_amounts with one keyword of the accepted names
AmountsCall == pc = "returned" /\ op = "get_amounts" /\ ~BadKwargs(args[2])

\* C6: get_amounts(k, moles=m) with k in range returns one entry per distinct
\* compound in first-appearance order; entry i is the amount map of compound i
\* for m * coefficient_i / coefficient_k moles, the coefficients being those
\* the reaction has once get_amounts has balanced it, and entry k is the index
\* compound's own amount map for m moles.
C6_Propagation ==
    (AmountsCall /\ err = "none" /\ args[2][1][1] = "moles") =>
        LET k == args[1]
            m == args[2][1][2]
            cs == Distinct(self)
            coefficient(i) == Get(self.coefficients, cs[i].formula)
        IN /\ Len(ret) = Len(cs)
           /\ [i \in 1..Len(cs) |-> cs[i].formula] = Dedup(PreReaction.constituents)
           /\ \A i \in 1..Len(cs) :
                 /\ FEq(ret[i].moles, FMul(m, Frac(coefficient(i), coefficient(k))))
                 /\ FEq(ret[i].grams, FMul(ret[i].moles, FInt(molar_mass(cs[i]))))
           /\ ret[k] = compound_get_amounts(cs[k], args[2]).val

\* N2 + H2 > NH3, get_amounts(1, moles=1): H2 3 moles, NH3 2 moles
C6_Witness ==
    /\ AmountsCall /\ err = "none"
    /\ args = <<1, << <<"moles", FInt(1)>> >> >>
    /\ [i \in 1..Len(pre.reactants) |-> pre.reactants[i].occurences]
         = << << <<<<"N">>, 2>> >>, << <<<<"H">>, 2>> >> >>
    /\ Len(ret) = 3
    /\ ret[2].moles = FInt(3) /\ ret[3].moles = FInt(2)

\* C9 (as claimed): get_amounts(k, ...) with one valid quantity keyword fails
\* with ValueError exactly when k < 1 or k > the number of distinct compound
\* formulas of the reaction, a number the balancing does not change.
C9_RangeErrorAlways ==
    AmountsCall =>
        /\ err = "ValueError" <=>
              (args[1] < 1 \/ args[1] > Len(Distinct(PreReaction)))
        /\ Len(Distinct(self)) = Len(Distinct(PreReaction))

\* C9 (amended): the same, when the balancing that get_amounts performs first
\* returns normally.
C9_RangeError ==
    (AmountsCall /\ balance(PreReaction).exc = "none") =>
        /\ err = "ValueError" <=>
              (args[1] < 1 \/ args[1] > Len(Distinct(PreReaction)))
        /\ Len(Distinct(self)) = Len(Distinct(PreReaction))

\* a range error on the compound number just past the last distinct compound
\* of a reaction the balancing has rewritten
C9_Witness ==
    /\ AmountsCall /\ err = "ValueError"
    /\ args[1] = Len(Distinct(PreReaction)) + 1
    /\ self.reactants # pre.reactants

\* C7 (as claimed): with two distinct reactants A and B and positive amounts a
\* and b, limiting_reagent(a, b) on A + B > products and limiting_reagent(b, a)
\* on B + A > products (same products, same mode) report the same compound,
\* also when both reactants yield the same amount of the last compound.
C7_OrderIndependent ==
    (Returned("limiting_reagent")
       /\ Len(pre.reactants) = 2
       /\ pre.reactants[1].formula # pre.reactants[2].formula
       /\ \A i \in 1..Len(args[1]) : FLess(FInt(0), args[1][i])) =>
        LET swapped == limiting_reagent(
                           reinit(<<pre.reactants[2], pre.reactants[1]>>, pre.products),
                           <<args[1][2], args[1][1]>>, args[2])
        IN swapped.exc = "none" /\ swapped.val.formula = ret.formula

\* C10 (as claimed): every ending concentration supplied as known is returned
\* unchanged under its constituent's formula, also when more than one is known;
\* only the entries supplied as None are computed.
C10_KnownEndingKept ==
    Returned("equilibrium_concentrations") =>
        \A i \in 1..Len(args[2]) :
            args[2][i] # None =>
                /\ ret[i][1] = self.constituents[i]
                /\ FEq(ret[i][2], args[2][i])

\* the call that C11 speaks of: balance() has run on an unbalanced Reaction
\* whose conservation system has rank below n - 1 in its n distinct compounds
C11_Precondition ==
    /\ op = "balance" /\ pc = "returned"
    /\ LET r == PreReaction
       IN ~is_balanced(r) /\ Rank(r) < Len(Distinct(r)) - 1

\* C11: balance() on an unbalanced Reaction whose element-conservation system
\* needs more than one free variable (rank < n - 1 in its n distinct
\* compounds) ends by raising an error in that call, and the Reaction's
\* reactants, products and derived formula lists, coefficients, constituents
\* and occurrence maps are then what they were before the call.
C11_UnsupportedFails ==
    C11_Precondition =>
        /\ err # "none"
        /\ self.reactants = pre.reactants
        /\ self.products = pre.products
        /\ self = PreReaction

\* H2 + O2 > H2O + H2O2: four distinct compounds of two elements, and the
\* call has raised the IndexError of solutions[sol]
C11_Witness ==
    /\ C11_Precondition
    /\ err = "IndexError"
    /\ [i \in 1..Len(pre.reactants) |-> pre.reactants[i].occurences]
         = << << <<<<"H">>, 2>> >>, << <<<<"O">>, 2>> >> >>
    /\ [i \in 1..Len(pre.products) |-> pre.products[i].occurences]
         = << << <<<<"H">>, 2>>, <<<<"O">>, 1>> >>, << <<<<"H">>, 2>>, <<<<"O">>, 2>> >> >>

============================================================================
